---- MODULE Spec2Model ----
(***************************************************************************)
(* Accounts, sign-in and role-based access control of webapp-freeinvoice. *)
(* The relational store is modelled by its five tables; every handler of  *)
(* the API and every exported function of database/ is one action that    *)
(* runs its SQL statements in the order of the source.  A storage failure *)
(* is the parameter fail: the number of the statement that raises (0 for  *)
(* none).  Statements run in autocommit: no function opens a transaction. *)
(***************************************************************************)
EXTENDS Integers, Sequences, FiniteSets, TLC

VARIABLES
    users,          \* table users: a set of rows
    user_roles,     \* table user_roles: a set of <<user_id, role_id>>
    roles,          \* table roles: a set of [id, name]
    permissions,    \* table permissions: a set of [id, name]
    role_permissions, \* table role_permissions: a set of <<role_id, permission_id>>
    nextId,         \* the sequence behind users.id
    nextToken,      \* the next value crypto.randomUUID() returns
    now,            \* the clock, in hours
    session,        \* the session the client holds: the last one minted
    completed,      \* ids of the users whose creating call returned normally
    consumed,       \* tokens that a verifyUserEmail call has accepted
    resp,           \* the outcome of the last call
    inflight        \* the requests that run statement by statement

vars == <<users, user_roles, roles, permissions, role_permissions, nextId,
          nextToken, now, session, completed, consumed, resp, inflight>>

catalog == <<roles, permissions, role_permissions>>

----------------------------------------------------------------------------
(* Bounds of the model. *)

MaxUsers == 2
MaxTokens == 2
MaxTime == 24
TickHours == 24
MaxCatalogPermissions == 3

(* Values of the program. *)

NULL == "NULL"
NullToken == 0
NullDate == 0 - 1
NoSession == 0
ROLE_GUEST == "guest"
ROLE_OWNER == "owner"
TokenValidityHours == 24
MinPasswordLength == 8
BcryptCost == 10

Emails == {"a@x.com"}
Passwords == {"longenough1", "longenough2"}
ShortPassword == "short"
RoleNames == {ROLE_GUEST, ROLE_OWNER}
AUTH_READ == "auth:read"
AUTH_UPDATE == "auth:update"
AUTH_DELETE == "auth:delete"
CALENDAR_READ == "calendar:read"
CALENDAR_DELETE == "calendar:delete"

(* The rows the provisioning of the catalog can insert: ids are the SERIAL *)
(* ids in the order of the documentation's tables.                        *)
RoleRows == {[id |-> 1, name |-> ROLE_GUEST], [id |-> 2, name |-> ROLE_OWNER]}
PermissionRows ==
    {[id |-> 1, name |-> CALENDAR_READ],
     [id |-> 2, name |-> AUTH_UPDATE],
     [id |-> 3, name |-> AUTH_DELETE],
     [id |-> 4, name |-> AUTH_READ],
     [id |-> 5, name |-> CALENDAR_DELETE]}
PermissionNames ==
    {CALENDAR_READ, CALENDAR_DELETE, AUTH_READ, AUTH_UPDATE, AUTH_DELETE}

(* ORDER BY p.name: the rank of a permission name in lexicographic order. *)
NameRank(n) ==
    CASE n = AUTH_DELETE -> 1
      [] n = AUTH_READ -> 2
      [] n = AUTH_UPDATE -> 3
      [] n = CALENDAR_DELETE -> 4
      [] n = CALENDAR_READ -> 5

(* password.length *)
PasswordLength(p) ==
    CASE p = "" -> 0
      [] p = ShortPassword -> 5
      [] OTHER -> 11

(* bcrypt.hash(password, 10) and bcrypt.compare(password, hash) *)
BcryptHash(p) == "$2b$10$" \o p
BcryptCompare(p, h) == h = BcryptHash(p)

----------------------------------------------------------------------------
(* The outcome of a call: the HTTP status of a route handler (0 for a    *)
(* function that is no handler), whether it raised, what it returned, and *)
(* whether the handler went on to call the mutating function.            *)

NoResp ==
    [op |-> "", status |-> 0, threw |-> FALSE, error |-> "", ret |-> FALSE,
     uid |-> 0, arg |-> "", list |-> <<>>, created |-> 0, token |-> NullToken,
     called |-> FALSE]

Resp(op, status, threw, ret, uid, arg) ==
    [NoResp EXCEPT !.op = op, !.status = status, !.threw = threw,
                   !.error = IF threw THEN "StorageError" ELSE "",
                   !.ret = ret, !.uid = uid, !.arg = arg]

----------------------------------------------------------------------------
(* database/rbac/roles.ts, database/rbac/permissions.ts *)

getRoleByName(name) == {r \in roles : r.name = name}
getPermissionByName(name) == {p \in permissions : p.name = name}

UserIds(tbl) == {u.id : u \in tbl}

(* database/rbac/userRoles.ts *)

getUserRoles(userId) ==
    {r.name : r \in {r \in roles : <<userId, r.id>> \in user_roles}}

(* What a function that raised raised: a failure of the statement (the    *)
(* pool rejects the query), which includes a violated constraint.         *)
Raised(ur) == [threw |-> TRUE, error |-> "StorageError", ret |-> FALSE, user_roles |-> ur]
Returned(ret, ur) == [threw |-> FALSE, error |-> "", ret |-> ret, user_roles |-> ur]

(* assignRoleToUser with an upsert that reports a row for a duplicate:    *)
(* ON CONFLICT DO UPDATE in place of DO NOTHING.                          *)
AssignRoleCountsConflict(tbl, ur, userId, roleName, fail) ==
    LET found == {r \in roles : r.name = roleName} IN
    IF fail = 1 THEN Raised(ur)
    ELSE IF found = {} THEN Returned(FALSE, ur)
    ELSE IF fail = 2 \/ userId \notin UserIds(tbl) THEN Raised(ur)
    ELSE Returned(TRUE, ur \cup {<<userId, (CHOOSE r \in found : TRUE).id>>})

(* The outcome of assignRoleToUser on the tables tbl (users) and ur       *)
(* (user_roles): statement 1 is getRoleByName, statement 2 the INSERT ... *)
(* ON CONFLICT DO NOTHING, which the foreign key user_roles.user_id       *)
(* rejects for an id that is not in users.                                *)
AssignRoleOutcome(tbl, ur, userId, roleName, fail) ==
    LET found == getRoleByName(roleName) IN
    IF fail = 1 THEN Raised(ur)
    ELSE IF found = {} THEN Returned(FALSE, ur)
    ELSE IF fail = 2 \/ userId \notin UserIds(tbl) THEN Raised(ur)
    ELSE LET row == <<userId, (CHOOSE r \in found : TRUE).id>> IN
         Returned(row \notin ur, ur \cup {row})

(* removeRoleFromUser: statement 1 is getRoleByName, statement 2 the DELETE. *)
RemoveRoleOutcome(ur, userId, roleName, fail) ==
    LET found == getRoleByName(roleName) IN
    IF fail = 1 THEN Raised(ur)
    ELSE IF found = {} THEN Returned(FALSE, ur)
    ELSE IF fail = 2 THEN Raised(ur)
    ELSE LET row == <<userId, (CHOOSE r \in found : TRUE).id>> IN
         Returned(row \in ur, ur \ {row})

assignRoleToUser(userId, roleName, fail) ==
    LET out == AssignRoleOutcome(users, user_roles, userId, roleName, fail) IN
    /\ user_roles' = out.user_roles
    /\ resp' = [Resp("assignRoleToUser", 0, out.threw, out.ret, userId, roleName)
                    EXCEPT !.error = out.error]
    /\ UNCHANGED <<inflight, users, catalog, nextId, nextToken, now, session,
                   completed, consumed>>

removeRoleFromUser(userId, roleName, fail) ==
    LET out == RemoveRoleOutcome(user_roles, userId, roleName, fail) IN
    /\ user_roles' = out.user_roles
    /\ resp' = [Resp("removeRoleFromUser", 0, out.threw, out.ret, userId, roleName)
                    EXCEPT !.error = out.error]
    /\ UNCHANGED <<inflight, users, catalog, nextId, nextToken, now, session,
                   completed, consumed>>

----------------------------------------------------------------------------
(* database/rbac/rbac.ts *)

(* The COUNT without its WHERE ur.user_id = $1. *)
HasPermissionCountAnyUser(userId, permissionId) ==
    Cardinality({j \in user_roles \X role_permissions :
                    j[1][2] = j[2][1] /\ j[2][2] = permissionId})

(* hasPermission: statement 1 is getPermissionByName, statement 2 the     *)
(* COUNT over user_roles joined with role_permissions.                 *)
HasPermissionCount(userId, permissionId) ==
    Cardinality({j \in user_roles \X role_permissions :
                    /\ j[1][2] = j[2][1]
                    /\ j[1][1] = userId
                    /\ j[2][2] = permissionId})

(* hasPermission raising for a name the catalog does not hold. *)
hasPermissionRaisesUnknown(userId, permissionName, fail) ==
    LET found == getPermissionByName(permissionName) IN
    IF fail = 1 THEN [threw |-> TRUE, error |-> "StorageError", ret |-> FALSE]
    ELSE IF found = {} THEN [threw |-> TRUE, error |-> "NotFound", ret |-> FALSE]
    ELSE IF fail = 2 THEN [threw |-> TRUE, error |-> "StorageError", ret |-> FALSE]
    ELSE [threw |-> FALSE, error |-> "",
          ret |-> HasPermissionCount(userId, (CHOOSE p \in found : TRUE).id) > 0]

hasPermission(userId, permissionName, fail) ==
    LET found == getPermissionByName(permissionName) IN
    IF fail = 1 THEN [threw |-> TRUE, error |-> "StorageError", ret |-> FALSE]
    ELSE IF found = {} THEN [threw |-> FALSE, error |-> "", ret |-> FALSE]
    ELSE IF fail = 2 THEN [threw |-> TRUE, error |-> "StorageError", ret |-> FALSE]
    ELSE [threw |-> FALSE, error |-> "",
          ret |-> HasPermissionCount(userId, (CHOOSE p \in found : TRUE).id) > 0]

(* The SELECT DISTINCT without its WHERE ur.user_id = $1. *)
UserPermissionNamesAnyUser(userId) ==
    {j[1].name : j \in {j \in permissions \X role_permissions \X user_roles :
                          /\ j[1].id = j[2][2]
                          /\ j[2][1] = j[3][2]}}

(* SELECT DISTINCT p.name ... ORDER BY p.name *)
UserPermissionNames(userId) ==
    {j[1].name : j \in {j \in permissions \X role_permissions \X user_roles :
                          /\ j[1].id = j[2][2]
                          /\ j[2][1] = j[3][2]
                          /\ j[3][1] = userId}}

RECURSIVE OrderByName(_)
OrderByName(names) ==
    IF names = {} THEN <<>>
    ELSE LET first == CHOOSE n \in names :
                        \A m \in names : NameRank(n) <= NameRank(m)
         IN <<first>> \o OrderByName(names \ {first})

getUserPermissions(userId) == OrderByName(UserPermissionNames(userId))

(* checkPermission answering false for a check that raised. *)
checkPermissionDeniesOnError(userId, permission, fail) ==
    IF hasPermission(userId, permission, fail).threw
    THEN [threw |-> FALSE, error |-> "", ret |-> FALSE]
    ELSE hasPermission(userId, permission, fail)

(* shared/auth/rbac.ts *)
checkPermission(userId, permission, fail) == hasPermission(userId, permission, fail)

----------------------------------------------------------------------------
(* database/auth/users.ts *)

OrNull(s) == IF s = "" THEN NULL ELSE s
Coalesce(a, b) == IF a # NULL THEN a ELSE b

(* The schema's default of users.email_verified. *)
DefaultEmailVerified == FALSE

(* A row of users as INSERT leaves it: the columns the statement does not *)
(* name take the defaults of the schema.                                  *)
UserRow(id, email, name, image, googleId, passwordHash, token, expires) ==
    [id |-> id, email |-> email, name |-> name, image |-> image,
     google_id |-> googleId, password_hash |-> passwordHash,
     email_verified |-> DefaultEmailVerified, verification_token |-> token,
     verification_token_expires |-> expires, updated_at |-> now]

getUserByEmail(tbl, email) == {u \in tbl : u.email = email}
getUserById(tbl, id) == {u \in tbl : u.id = id}
TheRow(rows) == CHOOSE u \in rows : TRUE

(* The UNIQUE constraint of users.google_id. *)
GoogleIdTaken(tbl, googleId, email) ==
    googleId # NULL /\ \E u \in tbl : u.google_id = googleId /\ u.email # email

(* createUserWithPassword inserting the row without the hash. *)
CreateUserWithPasswordStoresNoHash(email, password, name, fail) ==
    LET newUser == UserRow(nextId, email, OrNull(name), NULL, NULL,
                           NULL, nextToken, now + TokenValidityHours)
        inserted == users \cup {newUser}
        role == AssignRoleOutcome(inserted, user_roles, newUser.id, ROLE_OWNER,
                                  IF fail > 1 THEN fail - 1 ELSE 0)
    IN  IF fail = 1 \/ getUserByEmail(users, email) # {}
        THEN [threw |-> TRUE, user |-> newUser, users |-> users,
              user_roles |-> user_roles, nextId |-> nextId]
        ELSE [threw |-> role.threw, user |-> newUser, users |-> inserted,
              user_roles |-> role.user_roles, nextId |-> nextId + 1]

(* createUserWithPassword: statement 1 is the INSERT into users, 2 and 3  *)
(* are the statements of assignRoleToUser.                                *)
CreateUserWithPasswordOutcome(email, password, name, fail) ==
    LET newUser == UserRow(nextId, email, OrNull(name), NULL, NULL,
                           BcryptHash(password), nextToken,
                           now + TokenValidityHours)
        inserted == users \cup {newUser}
        role == AssignRoleOutcome(inserted, user_roles, newUser.id, ROLE_OWNER,
                                  IF fail > 1 THEN fail - 1 ELSE 0)
    IN  IF fail = 1 \/ getUserByEmail(users, email) # {}
        THEN [threw |-> TRUE, user |-> newUser, users |-> users,
              user_roles |-> user_roles, nextId |-> nextId]
        ELSE [threw |-> role.threw, user |-> newUser, users |-> inserted,
              user_roles |-> role.user_roles, nextId |-> nextId + 1]

(* createOrUpdateUser: statement 1 is getUserByEmail, 2 the INSERT ... ON *)
(* CONFLICT (email) DO UPDATE, 3 and 4 the statements of assignRoleToUser.*)
UpsertRowOverwrites(email, name, image, googleId) ==
    LET old == getUserByEmail(users, email) IN
    IF old = {}
    THEN UserRow(nextId, email, name, image, googleId, NULL, NullToken, NullDate)
    ELSE [TheRow(old) EXCEPT !.name = name, !.image = image,
                             !.google_id = googleId, !.updated_at = now]

UpsertRow(email, name, image, googleId) ==
    LET old == getUserByEmail(users, email) IN
    IF old = {}
    THEN UserRow(nextId, email, name, image, googleId, NULL, NullToken, NullDate)
    ELSE [TheRow(old) EXCEPT !.name = Coalesce(name, @),
                             !.image = Coalesce(image, @),
                             !.google_id = Coalesce(googleId, @),
                             !.updated_at = now]

(* createOrUpdateUser assigning the owner role on every call, not only   *)
(* for a new user.                                                        *)
CreateOrUpdateUserAlwaysAssigns(email, name, image, googleId, fail) ==
    LET old == getUserByEmail(users, email)
        isNewUser == old = {}
        user == UpsertRow(email, OrNull(name), OrNull(image), OrNull(googleId))
        upserted == (users \ old) \cup {user}
        role == AssignRoleOutcome(upserted, user_roles, user.id, ROLE_OWNER,
                                  IF fail > 2 THEN fail - 2 ELSE 0)
        same == [threw |-> TRUE, user |-> user, users |-> users,
                 user_roles |-> user_roles, nextId |-> nextId, isNewUser |-> isNewUser]
    IN  IF fail = 1 THEN same
        ELSE IF fail = 2 \/ GoogleIdTaken(users, user.google_id, email) THEN same
        ELSE [threw |-> role.threw, user |-> user, users |-> upserted,
              user_roles |-> role.user_roles,
              nextId |-> IF isNewUser THEN nextId + 1 ELSE nextId,
              isNewUser |-> isNewUser]

CreateOrUpdateUserOutcome(email, name, image, googleId, fail) ==
    LET old == getUserByEmail(users, email)
        isNewUser == old = {}
        user == UpsertRow(email, OrNull(name), OrNull(image), OrNull(googleId))
        upserted == (users \ old) \cup {user}
        role == AssignRoleOutcome(upserted, user_roles, user.id, ROLE_OWNER,
                                  IF fail > 2 THEN fail - 2 ELSE 0)
        same == [threw |-> TRUE, user |-> user, users |-> users,
                 user_roles |-> user_roles, nextId |-> nextId, isNewUser |-> isNewUser]
    IN  IF fail = 1 THEN same
        ELSE IF fail = 2 \/ GoogleIdTaken(users, user.google_id, email) THEN same
        ELSE IF isNewUser
        THEN [threw |-> role.threw, user |-> user, users |-> upserted,
              user_roles |-> role.user_roles, nextId |-> nextId + 1,
              isNewUser |-> TRUE]
        ELSE [threw |-> FALSE, user |-> user, users |-> upserted,
              user_roles |-> user_roles, nextId |-> nextId, isNewUser |-> FALSE]

(* mergeAccountWithGoogle also setting email_verified. *)
MergeAccountMarksVerified(email, googleId, name, image, fail) ==
    LET old == getUserByEmail(users, email)
        user == [TheRow(old) EXCEPT !.google_id = googleId,
                                    !.name = Coalesce(OrNull(name), @),
                                    !.image = Coalesce(OrNull(image), @),
                                    !.email_verified = TRUE,
                                    !.updated_at = now]
    IN  IF fail = 1 \/ GoogleIdTaken(users, googleId, email)
        THEN [threw |-> TRUE, user |-> user, users |-> users]
        ELSE [threw |-> FALSE, user |-> user, users |-> (users \ old) \cup {user}]

(* mergeAccountWithGoogle: one UPDATE ... WHERE email = $4 *)
MergeAccountWithGoogleOutcome(email, googleId, name, image, fail) ==
    LET old == getUserByEmail(users, email)
        user == [TheRow(old) EXCEPT !.google_id = googleId,
                                    !.name = Coalesce(OrNull(name), @),
                                    !.image = Coalesce(OrNull(image), @),
                                    !.updated_at = now]
    IN  IF fail = 1 \/ GoogleIdTaken(users, googleId, email)
        THEN [threw |-> TRUE, user |-> user, users |-> users]
        ELSE [threw |-> FALSE, user |-> user, users |-> (users \ old) \cup {user}]

(* The WHERE of verifyUserEmail with >= for the expiry. *)
VerifyMatchesAtExpiry(token) ==
    {u \in users : /\ u.verification_token # NullToken
                   /\ u.verification_token = token
                   /\ u.verification_token_expires # NullDate
                   /\ u.verification_token_expires >= now}

(* verifyUserEmail: one UPDATE ... WHERE verification_token = $1 AND      *)
(* verification_token_expires > NOW() RETURNING the rows.                 *)
VerifyMatches(token) ==
    {u \in users : /\ u.verification_token # NullToken
                   /\ u.verification_token = token
                   /\ u.verification_token_expires # NullDate
                   /\ u.verification_token_expires > now}

(* The UPDATE of verifyUserEmail without its SET of the token columns. *)
VerifiedRowKeepsToken(u) == [u EXCEPT !.email_verified = TRUE, !.updated_at = now]

VerifiedRow(u) ==
    [u EXCEPT !.email_verified = TRUE, !.verification_token = NullToken,
              !.verification_token_expires = NullDate, !.updated_at = now]

VerifyUserEmailOutcome(token, fail) ==
    LET hit == VerifyMatches(token) IN
    IF fail = 1 THEN [threw |-> TRUE, rows |-> {}, users |-> users]
    ELSE [threw |-> FALSE, rows |-> {VerifiedRow(u) : u \in hit},
          users |-> (users \ hit) \cup {VerifiedRow(u) : u \in hit}]

(* updateVerificationToken keeping the token a row already holds and     *)
(* renewing only its expiry.                                              *)
UpdateVerificationTokenReusesToken(email, fail) ==
    LET old == getUserByEmail(users, email)
        kept == IF old # {} /\ TheRow(old).verification_token # NullToken
                THEN TheRow(old).verification_token ELSE nextToken
        new == {[u EXCEPT !.verification_token = kept,
                          !.verification_token_expires = now + TokenValidityHours,
                          !.updated_at = now] : u \in old}
    IN  IF fail = 1 THEN [threw |-> TRUE, token |-> kept, users |-> users]
        ELSE [threw |-> FALSE, token |-> kept, users |-> (users \ old) \cup new]

(* updateVerificationToken: one UPDATE ... WHERE email = $3 *)
UpdateVerificationTokenOutcome(email, fail) ==
    LET old == getUserByEmail(users, email)
        new == {[u EXCEPT !.verification_token = nextToken,
                          !.verification_token_expires = now + TokenValidityHours,
                          !.updated_at = now] : u \in old}
    IN  IF fail = 1 THEN [threw |-> TRUE, token |-> nextToken, users |-> users]
        ELSE [threw |-> FALSE, token |-> nextToken, users |-> (users \ old) \cup new]

(* updatePassword: statement 1 is getUserById, statement 2 the UPDATE. *)
UpdatePasswordOutcome(userId, currentPassword, newPassword, fail) ==
    LET old == getUserById(users, userId)
        new == {[u EXCEPT !.password_hash = BcryptHash(newPassword),
                          !.updated_at = now] : u \in old}
        no == [threw |-> FALSE, ret |-> FALSE, users |-> users]
    IN  IF fail = 1 THEN [threw |-> TRUE, ret |-> FALSE, users |-> users]
        ELSE IF old = {} \/ TheRow(old).password_hash = NULL THEN no
        ELSE IF ~BcryptCompare(currentPassword, TheRow(old).password_hash) THEN no
        ELSE IF fail = 2 THEN [threw |-> TRUE, ret |-> FALSE, users |-> users]
        ELSE [threw |-> FALSE, ret |-> TRUE, users |-> (users \ old) \cup new]

(* setPassword: statement 1 is getUserById, statement 2 the UPDATE. *)
SetPasswordOutcome(userId, password, fail) ==
    LET old == getUserById(users, userId)
        new == {[u EXCEPT !.password_hash = BcryptHash(password),
                          !.updated_at = now] : u \in old}
        no == [threw |-> FALSE, ret |-> FALSE, users |-> users]
    IN  IF fail = 1 THEN [threw |-> TRUE, ret |-> FALSE, users |-> users]
        ELSE IF old = {} THEN no
        ELSE IF TheRow(old).password_hash # NULL THEN no
        ELSE IF fail = 2 THEN [threw |-> TRUE, ret |-> FALSE, users |-> users]
        ELSE [threw |-> FALSE, ret |-> TRUE, users |-> (users \ old) \cup new]

(* deleteUser on a user_roles table whose user_id does not cascade. *)
DeleteUserKeepsRoleRows(userId, fail) ==
    LET old == getUserById(users, userId) IN
    IF fail = 1
    THEN [threw |-> TRUE, ret |-> FALSE, users |-> users, user_roles |-> user_roles]
    ELSE [threw |-> FALSE, ret |-> old # {}, users |-> users \ old,
          user_roles |-> user_roles]

(* deleteUser: one DELETE; user_roles.user_id is declared ON DELETE CASCADE. *)
DeleteUserOutcome(userId, fail) ==
    LET old == getUserById(users, userId) IN
    IF fail = 1
    THEN [threw |-> TRUE, ret |-> FALSE, users |-> users, user_roles |-> user_roles]
    ELSE [threw |-> FALSE, ret |-> old # {}, users |-> users \ old,
          user_roles |-> {ur \in user_roles : ur[1] # userId}]

(* verifyPassword returning the user without comparing the password. *)
VerifyPasswordSkipsCompare(email, password, fail) ==
    LET found == getUserByEmail(users, email) IN
    IF fail = 1 THEN [threw |-> TRUE, rows |-> {}]
    ELSE IF found = {} \/ TheRow(found).password_hash = NULL
         THEN [threw |-> FALSE, rows |-> {}]
    ELSE [threw |-> FALSE, rows |-> found]

(* verifyPassword returning a user that has no password hash. *)
VerifyPasswordAcceptsMissingHash(email, password, fail) ==
    LET found == getUserByEmail(users, email) IN
    IF fail = 1 THEN [threw |-> TRUE, rows |-> {}]
    ELSE IF found = {} THEN [threw |-> FALSE, rows |-> {}]
    ELSE IF TheRow(found).password_hash # NULL
            /\ ~BcryptCompare(password, TheRow(found).password_hash)
         THEN [threw |-> FALSE, rows |-> {}]
    ELSE [threw |-> FALSE, rows |-> found]

(* verifyPassword: statement 1 is getUserByEmail. *)
VerifyPasswordOutcome(email, password, fail) ==
    LET found == getUserByEmail(users, email) IN
    IF fail = 1 THEN [threw |-> TRUE, rows |-> {}]
    ELSE IF found = {} \/ TheRow(found).password_hash = NULL
         THEN [threw |-> FALSE, rows |-> {}]
    ELSE IF ~BcryptCompare(password, TheRow(found).password_hash)
         THEN [threw |-> FALSE, rows |-> {}]
    ELSE [threw |-> FALSE, rows |-> found]

----------------------------------------------------------------------------
(* Sessions: app/api/auth/[...nextauth]/route.ts *)

(* What the provider asserts: the subject id of the account that owns the *)
(* email, and a profile whose name and image may be absent.               *)
ProviderAccountId(email) == IF email = "a@x.com" THEN "101" ELSE "102"
ProviderProfiles == {[name |-> "", image |-> ""], [name |-> "Gina", image |-> "g.png"]}
RegisterNames == {"", "Ann"}

(* parseInt(user.id, 10) of the id the provider gave the user object *)
ParseInt(sub) == IF sub = "101" THEN 101 ELSE 102

Session(id, accessToken) == [id |-> id, accessToken |-> accessToken]
Anonymous == Session(NoSession, FALSE)

(* authorize of the credentials provider, then the jwt callback *)
authorize(email, password, fail) ==
    LET out == VerifyPasswordOutcome(email, password, fail)
        r == Resp("authorize", 0, FALSE, FALSE, 0, email)
    IN
    /\ IF email = "" \/ password = "" THEN
            /\ resp' = r
            /\ UNCHANGED session
       ELSE IF out.threw THEN
            /\ resp' = [r EXCEPT !.threw = TRUE, !.error = "StorageError"]
            /\ UNCHANGED session
       ELSE IF out.rows = {} THEN
            /\ resp' = r
            /\ UNCHANGED session
       ELSE IF ~TheRow(out.rows).email_verified THEN
            /\ resp' = [r EXCEPT !.threw = TRUE, !.error = "Email no verificado"]
            /\ UNCHANGED session
       ELSE /\ resp' = [r EXCEPT !.ret = TRUE, !.uid = TheRow(out.rows).id]
            /\ session' = Session(TheRow(out.rows).id, FALSE)
    /\ UNCHANGED <<inflight, users, user_roles, catalog, nextId, nextToken,
                   now, completed, consumed>>

(* The signIn callback for the google provider, then the jwt callback:    *)
(* statement 1 is getUserByEmail; then the statement of                   *)
(* mergeAccountWithGoogle or the statements of createOrUpdateUser.  An    *)
(* error is caught and logged, and the callback returns true.             *)
SignInOutcome(email, sub, name, image, fail) ==
    LET existing == getUserByEmail(users, email)
        rest == IF fail > 1 THEN fail - 1 ELSE 0
        merge == MergeAccountWithGoogleOutcome(email, sub, name, image, rest)
        upsert == CreateOrUpdateUserOutcome(email, name, image, sub, rest)
        same == [caught |-> TRUE, id |-> ParseInt(sub), users |-> users,
                 user_roles |-> user_roles, nextId |-> nextId, created |-> 0]
    IN  IF fail = 1 THEN same
        ELSE IF existing # {} /\ TheRow(existing).google_id = NULL
        THEN IF merge.threw THEN same
             ELSE [caught |-> FALSE, id |-> merge.user.id, users |-> merge.users,
                   user_roles |-> user_roles, nextId |-> nextId, created |-> 0]
        ELSE [caught |-> upsert.threw,
              id |-> IF upsert.threw THEN ParseInt(sub) ELSE upsert.user.id,
              users |-> upsert.users, user_roles |-> upsert.user_roles,
              nextId |-> upsert.nextId,
              created |-> IF upsert.isNewUser /\ ~upsert.threw
                          THEN upsert.user.id ELSE 0]

signIn(email, sub, name, image, fail) ==
    LET out == SignInOutcome(email, sub, name, image, fail) IN
    /\ getUserByEmail(users, email) = {} => nextId <= MaxUsers
    /\ users' = out.users
    /\ user_roles' = out.user_roles
    /\ nextId' = out.nextId
    /\ completed' = IF out.created # 0 THEN completed \cup {out.created} ELSE completed
    /\ session' = Session(out.id, TRUE)
    /\ resp' = [Resp("signIn", 0, FALSE, TRUE, out.id, email) EXCEPT
                    !.error = IF out.caught THEN "StorageError" ELSE "",
                    !.created = out.created]
    /\ UNCHANGED <<inflight, catalog, nextToken, now, consumed>>

----------------------------------------------------------------------------
(* POST /api/auth/register: statement 1 is getUserByEmail, 2 to 4 are the *)
(* statements of createUserWithPassword; 5 is sendVerificationEmail.      *)
register(email, password, name, fail) ==
    LET out == CreateUserWithPasswordOutcome(email, password, name,
                                             IF fail \in 2 .. 4 THEN fail - 1 ELSE 0)
        mailFails == fail = 5
        r == Resp("register", 200, FALSE, FALSE, 0, email)
        keep == UNCHANGED <<users, user_roles, nextId, nextToken, completed>>
    IN
    /\ IF email = "" \/ password = "" THEN
            /\ resp' = [r EXCEPT !.status = 400]
            /\ keep
       ELSE IF PasswordLength(password) < MinPasswordLength THEN
            /\ resp' = [r EXCEPT !.status = 400]
            /\ keep
       ELSE IF fail = 1 THEN
            /\ resp' = [r EXCEPT !.status = 500, !.error = "StorageError"]
            /\ keep
       ELSE IF getUserByEmail(users, email) # {} THEN
            /\ resp' = [r EXCEPT !.status = 409]
            /\ keep
       ELSE /\ nextId <= MaxUsers
            /\ nextToken <= MaxTokens
            /\ users' = out.users
            /\ user_roles' = out.user_roles
            /\ nextId' = out.nextId
            /\ nextToken' = nextToken + 1
            /\ completed' = IF out.threw THEN completed
                            ELSE completed \cup {out.user.id}
            /\ resp' = [r EXCEPT
                    !.status = IF out.threw \/ mailFails THEN 500 ELSE 200,
                    !.error = IF out.threw THEN "StorageError"
                              ELSE IF mailFails THEN "EmailError" ELSE "",
                    !.ret = ~out.threw /\ ~mailFails,
                    !.uid = out.user.id,
                    !.created = IF out.threw THEN 0 ELSE out.user.id,
                    !.token = out.user.verification_token]
    /\ UNCHANGED <<inflight, catalog, now, session, consumed>>

(* POST /api/auth/verify-email *)
verifyEmail(token, fail) ==
    LET out == VerifyUserEmailOutcome(token, fail)
        r == [Resp("verifyEmail", 200, FALSE, FALSE, 0, "") EXCEPT !.token = token]
    IN
    /\ IF token = NullToken THEN
            /\ resp' = [r EXCEPT !.status = 400]
            /\ UNCHANGED <<users, consumed>>
       ELSE IF out.threw THEN
            /\ resp' = [r EXCEPT !.status = 500, !.error = "StorageError"]
            /\ UNCHANGED <<users, consumed>>
       ELSE IF out.rows = {} THEN
            /\ resp' = [r EXCEPT !.status = 400, !.error = "Token invalido o expirado"]
            /\ users' = out.users
            /\ UNCHANGED consumed
       ELSE /\ resp' = [r EXCEPT !.ret = TRUE, !.uid = TheRow(out.rows).id]
            /\ users' = out.users
            /\ consumed' = consumed \cup {token}
    /\ UNCHANGED <<inflight, user_roles, catalog, nextId, nextToken, now,
                   session, completed>>

(* POST /api/auth/resend-verification: statement 1 is getUserByEmail,     *)
(* statement 2 the UPDATE of updateVerificationToken, 3 is                *)
(* sendVerificationEmail.                                                 *)
resendVerification(email, fail) ==
    LET found == getUserByEmail(users, email)
        out == UpdateVerificationTokenOutcome(email, IF fail = 2 THEN 1 ELSE 0)
        mailFails == fail = 3
        r == Resp("resendVerification", 200, FALSE, FALSE, 0, email)
    IN
    /\ IF email = "" THEN
            /\ resp' = [r EXCEPT !.status = 400]
            /\ UNCHANGED <<users, nextToken>>
       ELSE IF fail = 1 THEN
            /\ resp' = [r EXCEPT !.status = 500, !.error = "StorageError"]
            /\ UNCHANGED <<users, nextToken>>
       ELSE IF found = {} THEN
            /\ resp' = [r EXCEPT !.status = 404]
            /\ UNCHANGED <<users, nextToken>>
       ELSE IF TheRow(found).email_verified THEN
            /\ resp' = [r EXCEPT !.status = 400, !.error = "El email ya esta verificado"]
            /\ UNCHANGED <<users, nextToken>>
       ELSE /\ nextToken <= MaxTokens
            /\ users' = out.users
            /\ nextToken' = nextToken + 1
            /\ resp' = [r EXCEPT
                    !.status = IF out.threw \/ mailFails THEN 500 ELSE 200,
                    !.error = IF out.threw THEN "StorageError"
                              ELSE IF mailFails THEN "EmailError" ELSE "",
                    !.ret = ~out.threw /\ ~mailFails,
                    !.uid = TheRow(found).id,
                    !.token = out.token]
    /\ UNCHANGED <<inflight, user_roles, catalog, nextId, now, session,
                   completed, consumed>>

----------------------------------------------------------------------------
(* The protected operations.  Statements 1 and 2 are those of             *)
(* checkPermission; the statements of the operation follow.  Every handler*)
(* is one try block whose catch answers 500.                              *)

AfterCheck(fail) == IF fail > 2 THEN fail - 2 ELSE 0

(* POST /api/auth/change-password *)
changePassword(sess, currentPassword, newPassword, fail) ==
    LET check == checkPermission(sess.id, AUTH_UPDATE, fail)
        out == UpdatePasswordOutcome(sess.id, currentPassword, newPassword,
                                     AfterCheck(fail))
        r == Resp("changePassword", 200, FALSE, FALSE, sess.id, AUTH_UPDATE)
    IN
    /\ IF sess.id = NoSession THEN
            resp' = [r EXCEPT !.status = 401] /\ UNCHANGED users
       ELSE IF check.threw THEN
            resp' = [r EXCEPT !.status = 500, !.error = "StorageError"] /\ UNCHANGED users
       ELSE IF ~check.ret THEN
            resp' = [r EXCEPT !.status = 403] /\ UNCHANGED users
       ELSE IF currentPassword = "" \/ newPassword = "" THEN
            resp' = [r EXCEPT !.status = 400] /\ UNCHANGED users
       ELSE IF PasswordLength(newPassword) < MinPasswordLength THEN
            resp' = [r EXCEPT !.status = 400] /\ UNCHANGED users
       ELSE /\ users' = out.users
            /\ resp' = [r EXCEPT !.called = TRUE, !.ret = out.ret,
                          !.status = IF out.threw THEN 500
                                     ELSE IF ~out.ret THEN 400 ELSE 200,
                          !.error = IF out.threw THEN "StorageError" ELSE ""]
    /\ UNCHANGED <<inflight, user_roles, catalog, nextId, nextToken, now,
                   session, completed, consumed>>

(* POST /api/auth/set-password *)
setPassword(sess, password, fail) ==
    LET check == checkPermission(sess.id, AUTH_UPDATE, fail)
        out == SetPasswordOutcome(sess.id, password, AfterCheck(fail))
        r == Resp("setPassword", 200, FALSE, FALSE, sess.id, AUTH_UPDATE)
    IN
    /\ IF sess.id = NoSession THEN
            resp' = [r EXCEPT !.status = 401] /\ UNCHANGED users
       ELSE IF check.threw THEN
            resp' = [r EXCEPT !.status = 500, !.error = "StorageError"] /\ UNCHANGED users
       ELSE IF ~check.ret THEN
            resp' = [r EXCEPT !.status = 403] /\ UNCHANGED users
       ELSE IF password = "" THEN
            resp' = [r EXCEPT !.status = 400] /\ UNCHANGED users
       ELSE IF PasswordLength(password) < MinPasswordLength THEN
            resp' = [r EXCEPT !.status = 400] /\ UNCHANGED users
       ELSE /\ users' = out.users
            /\ resp' = [r EXCEPT !.called = TRUE, !.ret = out.ret,
                          !.status = IF out.threw THEN 500
                                     ELSE IF ~out.ret THEN 400 ELSE 200,
                          !.error = IF out.threw THEN "StorageError" ELSE ""]
    /\ UNCHANGED <<inflight, user_roles, catalog, nextId, nextToken, now,
                   session, completed, consumed>>

(* The handler without its permission check. *)
deleteAccountUnchecked(sess, fail) ==
    LET out == DeleteUserOutcome(sess.id, IF fail > 2 THEN fail - 2 ELSE 0)
        r == Resp("deleteAccount", 200, FALSE, FALSE, sess.id, AUTH_DELETE)
    IN
    /\ IF sess.id = NoSession THEN
            resp' = [r EXCEPT !.status = 401] /\ UNCHANGED <<users, user_roles, completed>>
       ELSE /\ users' = out.users
            /\ user_roles' = out.user_roles
            /\ completed' = completed \cap UserIds(out.users)
            /\ resp' = [r EXCEPT !.called = TRUE, !.ret = out.ret,
                          !.status = IF out.threw \/ ~out.ret THEN 500 ELSE 200,
                          !.error = IF out.threw THEN "StorageError" ELSE ""]
    /\ UNCHANGED <<inflight, catalog, nextId, nextToken, now, session,
                   consumed>>

(* deleteUser called for a user id. *)
deleteUser(userId, fail) ==
    LET out == DeleteUserOutcome(userId, fail) IN
    /\ users' = out.users
    /\ user_roles' = out.user_roles
    /\ completed' = completed \cap UserIds(out.users)
    /\ resp' = Resp("deleteUser", 0, out.threw, out.ret, userId, "")
    /\ UNCHANGED <<inflight, catalog, nextId, nextToken, now, session,
                   consumed>>

(* DELETE /api/auth/delete-account *)
deleteAccount(sess, fail) ==
    LET check == checkPermission(sess.id, AUTH_DELETE, fail)
        out == DeleteUserOutcome(sess.id, AfterCheck(fail))
        r == Resp("deleteAccount", 200, FALSE, FALSE, sess.id, AUTH_DELETE)
        keep == UNCHANGED <<users, user_roles, completed>>
    IN
    /\ IF sess.id = NoSession THEN
            resp' = [r EXCEPT !.status = 401] /\ keep
       ELSE IF check.threw THEN
            resp' = [r EXCEPT !.status = 500, !.error = "StorageError"] /\ keep
       ELSE IF ~check.ret THEN
            resp' = [r EXCEPT !.status = 403] /\ keep
       ELSE /\ users' = out.users
            /\ user_roles' = out.user_roles
            /\ completed' = completed \cap UserIds(out.users)
            /\ resp' = [r EXCEPT !.called = TRUE, !.ret = out.ret,
                          !.status = IF out.threw \/ ~out.ret THEN 500 ELSE 200,
                          !.error = IF out.threw THEN "StorageError" ELSE ""]
    /\ UNCHANGED <<inflight, catalog, nextId, nextToken, now, session,
                   consumed>>

(* GET /api/auth/login-methods: statement 3 is getUserLoginMethods. *)
loginMethods(sess, fail) ==
    LET check == checkPermission(sess.id, AUTH_READ, fail)
        r == Resp("loginMethods", 200, FALSE, FALSE, sess.id, AUTH_READ)
    IN
    /\ resp' = IF sess.id = NoSession THEN [r EXCEPT !.status = 401]
               ELSE IF check.threw
                    THEN [r EXCEPT !.status = 500, !.error = "StorageError"]
               ELSE IF ~check.ret THEN [r EXCEPT !.status = 403]
               ELSE [r EXCEPT !.called = TRUE, !.ret = fail # 3,
                        !.status = IF fail = 3 THEN 500 ELSE 200,
                        !.error = IF fail = 3 THEN "StorageError" ELSE ""]
    /\ UNCHANGED <<inflight, users, user_roles, catalog, nextId, nextToken,
                   now, session,
                   completed, consumed>>

(* GET /api/calendar/events: after the check the handler fetches the      *)
(* provider's calendar API and passes on the status of a failed response. *)
GoogleStatuses == {200, 401, 403}

calendarEvents(sess, fail, googleStatus) ==
    LET check == checkPermission(sess.id, CALENDAR_READ, fail)
        r == Resp("calendarEvents", 200, FALSE, FALSE, sess.id, CALENDAR_READ)
    IN
    /\ resp' = IF ~sess.accessToken THEN [r EXCEPT !.status = 401]
               ELSE IF sess.id = NoSession THEN [r EXCEPT !.status = 401]
               ELSE IF check.threw
                    THEN [r EXCEPT !.status = 500, !.error = "StorageError"]
               ELSE IF ~check.ret THEN [r EXCEPT !.status = 403]
               ELSE [r EXCEPT !.called = TRUE, !.ret = googleStatus = 200,
                        !.status = googleStatus]
    /\ UNCHANGED <<inflight, users, user_roles, catalog, nextId, nextToken,
                   now, session,
                   completed, consumed>>

----------------------------------------------------------------------------
(* Queries of the permission resolver, called on their own. *)

queryHasPermission(userId, permissionName, fail) ==
    LET out == hasPermission(userId, permissionName, fail) IN
    /\ resp' = [Resp("hasPermission", 0, out.threw, out.ret, userId, permissionName)
                    EXCEPT !.error = out.error]
    /\ UNCHANGED <<inflight, users, user_roles, catalog, nextId, nextToken,
                   now, session,
                   completed, consumed>>

queryUserPermissions(userId, fail) ==
    /\ resp' = [Resp("getUserPermissions", 0, fail = 1, FALSE, userId, "") EXCEPT
                    !.list = IF fail = 1 THEN <<>> ELSE getUserPermissions(userId)]
    /\ UNCHANGED <<inflight, users, user_roles, catalog, nextId, nextToken,
                   now, session,
                   completed, consumed>>

(* The clock. *)
Tick ==
    /\ now < MaxTime
    /\ now' = now + TickHours
    /\ UNCHANGED <<inflight, users, user_roles, catalog, nextId, nextToken,
                   session,
                   completed, consumed, resp>>

----------------------------------------------------------------------------
(* Requests whose statements interleave with those of other requests.    *)
(* A request holds what its handler holds between two statements: the row *)
(* getUserByEmail returned, isNewUser, the id of the row its write        *)
(* returned, and at the end the status it answers.                        *)
Requests == {1, 2}

Idle == [kind |-> "", pc |-> "idle", email |-> "", existing |-> {},
         isNewUser |-> FALSE, uid |-> 0, status |-> 0, password |-> "",
         ret |-> FALSE]

Step(p, pc, rec) ==
    /\ inflight[p].pc = pc
    /\ inflight' = [inflight EXCEPT ![p] = rec]

RaceFrame == UNCHANGED <<catalog, now, session, consumed, resp>>

(* A Google sign-in or a register request arrives. *)
startSignIn(p, email) ==
    /\ Step(p, "idle", [Idle EXCEPT !.kind = "signIn", !.email = email,
                                    !.pc = "signIn.getUserByEmail"])
    /\ RaceFrame
    /\ UNCHANGED <<users, user_roles, nextId, nextToken, completed>>

startRegister(p, email) ==
    /\ Step(p, "idle", [Idle EXCEPT !.kind = "register", !.email = email,
                                    !.pc = "register.getUserByEmail"])
    /\ RaceFrame
    /\ UNCHANGED <<users, user_roles, nextId, nextToken, completed>>

(* signIn callback: const existingUser = await getUserByEmail(user.email) *)
signInGetUserByEmail(p) ==
    LET me == inflight[p]
        existing == getUserByEmail(users, me.email)
    IN
    /\ Step(p, "signIn.getUserByEmail",
            [me EXCEPT !.existing = existing,
                       !.pc = IF existing # {} /\ TheRow(existing).google_id = NULL
                              THEN "mergeAccountWithGoogle"
                              ELSE "createOrUpdateUser.getUserByEmail"])
    /\ RaceFrame
    /\ UNCHANGED <<users, user_roles, nextId, nextToken, completed>>

(* signIn callback: await mergeAccountWithGoogle(...) *)
signInMergeAccountWithGoogle(p) ==
    LET me == inflight[p]
        out == MergeAccountWithGoogleOutcome(me.email, ProviderAccountId(me.email),
                                             "", "", 0)
    IN
    /\ Step(p, "mergeAccountWithGoogle",
            [me EXCEPT !.uid = out.user.id, !.status = 200, !.pc = "done"])
    /\ users' = out.users
    /\ RaceFrame
    /\ UNCHANGED <<user_roles, nextId, nextToken, completed>>

(* createOrUpdateUser: const existingUser = await getUserByEmail(email) *)
createOrUpdateUserGetUserByEmail(p) ==
    LET me == inflight[p] IN
    /\ Step(p, "createOrUpdateUser.getUserByEmail",
            [me EXCEPT !.isNewUser = getUserByEmail(users, me.email) = {},
                       !.pc = "createOrUpdateUser.upsert"])
    /\ RaceFrame
    /\ UNCHANGED <<users, user_roles, nextId, nextToken, completed>>

(* createOrUpdateUser: INSERT ... ON CONFLICT (email) DO UPDATE *)
createOrUpdateUserUpsert(p) ==
    LET me == inflight[p]
        old == getUserByEmail(users, me.email)
        user == UpsertRow(me.email, NULL, NULL, ProviderAccountId(me.email))
    IN
    /\ old = {} => nextId <= MaxUsers
    /\ Step(p, "createOrUpdateUser.upsert",
            [me EXCEPT !.uid = user.id,
                       !.status = IF me.isNewUser THEN 0 ELSE 200,
                       !.pc = IF me.isNewUser
                              THEN "createOrUpdateUser.assignRoleToUser"
                              ELSE "done"])
    /\ users' = (users \ old) \cup {user}
    /\ nextId' = IF old = {} THEN nextId + 1 ELSE nextId
    /\ RaceFrame
    /\ UNCHANGED <<user_roles, nextToken, completed>>

(* createOrUpdateUser: await assignRoleToUser(user.id, ROLES.OWNER) *)
createOrUpdateUserAssignRole(p) ==
    LET me == inflight[p]
        out == AssignRoleOutcome(users, user_roles, me.uid, ROLE_OWNER, 0)
    IN
    /\ Step(p, "createOrUpdateUser.assignRoleToUser",
            [me EXCEPT !.status = 200, !.pc = "done"])
    /\ user_roles' = out.user_roles
    /\ completed' = completed \cup {me.uid}
    /\ RaceFrame
    /\ UNCHANGED <<users, nextId, nextToken>>

(* register: const existingUser = await getUserByEmail(email) *)
registerGetUserByEmail(p) ==
    LET me == inflight[p]
        existing == getUserByEmail(users, me.email)
    IN
    /\ Step(p, "register.getUserByEmail",
            IF existing # {}
            THEN [me EXCEPT !.existing = existing, !.status = 409, !.pc = "done"]
            ELSE [me EXCEPT !.pc = "createUserWithPassword.insert"])
    /\ RaceFrame
    /\ UNCHANGED <<users, user_roles, nextId, nextToken, completed>>

(* createUserWithPassword: INSERT INTO users, which the UNIQUE constraint *)
(* on email rejects when a row for the email exists; the handler's catch  *)
(* answers 500.                                                           *)
createUserWithPasswordInsert(p) ==
    LET me == inflight[p]
        newUser == UserRow(nextId, me.email, NULL, NULL, NULL,
                           BcryptHash("longenough1"), nextToken,
                           now + TokenValidityHours)
    IN
    /\ inflight[p].pc = "createUserWithPassword.insert"
    /\ IF getUserByEmail(users, me.email) # {}
       THEN /\ inflight' = [inflight EXCEPT ![p] =
                                [me EXCEPT !.status = 500, !.pc = "done"]]
            /\ UNCHANGED <<users, nextId, nextToken>>
       ELSE /\ nextId <= MaxUsers
            /\ nextToken <= MaxTokens
            /\ inflight' = [inflight EXCEPT ![p] =
                                [me EXCEPT !.uid = newUser.id,
                                    !.pc = "createUserWithPassword.assignRoleToUser"]]
            /\ users' = users \cup {newUser}
            /\ nextId' = nextId + 1
            /\ nextToken' = nextToken + 1
    /\ RaceFrame
    /\ UNCHANGED <<user_roles, completed>>

(* createUserWithPassword: await assignRoleToUser(newUser.id, ROLES.OWNER), *)
(* then the mail and the 200 of the handler.                               *)
createUserWithPasswordAssignRole(p) ==
    LET me == inflight[p]
        out == AssignRoleOutcome(users, user_roles, me.uid, ROLE_OWNER, 0)
    IN
    /\ Step(p, "createUserWithPassword.assignRoleToUser",
            [me EXCEPT !.status = 200, !.pc = "done"])
    /\ user_roles' = out.user_roles
    /\ completed' = completed \cup {me.uid}
    /\ RaceFrame
    /\ UNCHANGED <<users, nextId, nextToken>>

(* A resend-verification request arrives. *)
startResend(p, email) ==
    /\ Step(p, "idle", [Idle EXCEPT !.kind = "resendVerification", !.email = email,
                                    !.pc = "resend.getUserByEmail"])
    /\ RaceFrame
    /\ UNCHANGED <<users, user_roles, nextId, nextToken, completed>>

(* resend-verification: const user = await getUserByEmail(email), then    *)
(* the 404 for no row and the 400 for a verified one.                     *)
resendGetUserByEmail(p) ==
    LET me == inflight[p]
        existing == getUserByEmail(users, me.email)
    IN
    /\ Step(p, "resend.getUserByEmail",
            IF existing = {}
            THEN [me EXCEPT !.status = 404, !.pc = "done"]
            ELSE IF TheRow(existing).email_verified
            THEN [me EXCEPT !.existing = existing, !.status = 400, !.pc = "done"]
            ELSE [me EXCEPT !.existing = existing, !.uid = TheRow(existing).id,
                            !.pc = "updateVerificationToken"])
    /\ RaceFrame
    /\ UNCHANGED <<users, user_roles, nextId, nextToken, completed>>

(* resend-verification: const token = await updateVerificationToken(email), *)
(* then the mail and the 200 of the handler.                               *)
resendUpdateVerificationToken(p) ==
    LET me == inflight[p]
        out == UpdateVerificationTokenOutcome(me.email, 0)
    IN
    /\ nextToken <= MaxTokens
    /\ Step(p, "updateVerificationToken", [me EXCEPT !.status = 200, !.pc = "done"])
    /\ users' = out.users
    /\ nextToken' = nextToken + 1
    /\ RaceFrame
    /\ UNCHANGED <<user_roles, nextId, completed>>

(* A call of setPassword(userId, password) begins. *)
startSetPassword(p, userId, password) ==
    /\ Step(p, "idle", [Idle EXCEPT !.kind = "setPassword", !.uid = userId,
                                    !.password = password,
                                    !.pc = "setPassword.getUserById"])
    /\ RaceFrame
    /\ UNCHANGED <<users, user_roles, nextId, nextToken, completed>>

(* setPassword: const user = await getUserById(userId), then return false *)
(* for no row and for a row that has a password hash.                     *)
setPasswordGetUserById(p) ==
    LET me == inflight[p]
        user == getUserById(users, me.uid)
    IN
    /\ Step(p, "setPassword.getUserById",
            IF user = {} \/ TheRow(user).password_hash # NULL
            THEN [me EXCEPT !.existing = user, !.ret = FALSE, !.pc = "done"]
            ELSE [me EXCEPT !.existing = user, !.pc = "setPassword.update"])
    /\ RaceFrame
    /\ UNCHANGED <<users, user_roles, nextId, nextToken, completed>>

(* setPassword: bcrypt.hash, then UPDATE users SET password_hash = $1 ...  *)
(* WHERE id = $2, then return true.                                       *)
setPasswordUpdate(p) ==
    LET me == inflight[p]
        old == getUserById(users, me.uid)
        new == {[u EXCEPT !.password_hash = BcryptHash(me.password),
                          !.updated_at = now] : u \in old}
    IN
    /\ Step(p, "setPassword.update", [me EXCEPT !.ret = TRUE, !.pc = "done"])
    /\ users' = (users \ old) \cup new
    /\ RaceFrame
    /\ UNCHANGED <<user_roles, nextId, nextToken, completed>>

(* The catalog as provisioned.  The documentation gives guest the read    *)
(* permissions and owner every permission; a store whose roles or         *)
(* permissions were not (or not all) provisioned is a state the functions *)
(* can be called in as well.                                              *)

ReadPermissionIds == {1, 4}

SeededCatalog ==
    [roles |-> RoleRows, permissions |-> PermissionRows,
     role_permissions |-> ({1} \X ReadPermissionIds)
                          \cup ({2} \X {p.id : p \in PermissionRows})]

GuestOnlyCatalog ==
    [roles |-> {r \in RoleRows : r.name = ROLE_GUEST},
     permissions |-> PermissionRows,
     role_permissions |-> {1} \X ReadPermissionIds]

EmptyCatalog == [roles |-> {}, permissions |-> {}, role_permissions |-> {}]

Catalogs == {SeededCatalog, GuestOnlyCatalog, EmptyCatalog}

Init ==
    /\ \E c \in Catalogs :
        /\ roles = c.roles
        /\ permissions = c.permissions
        /\ role_permissions = c.role_permissions
    /\ users = {}
    /\ user_roles = {}
    /\ nextId = 1
    /\ nextToken = 1
    /\ now = 0
    /\ session = Anonymous
    /\ completed = {}
    /\ consumed = {}
    /\ resp = NoResp
    /\ inflight = [p \in Requests |-> Idle]

UserIdInputs == 1 .. MaxUsers
TokenInputs == 0 .. MaxTokens
SessionInputs == {session, Anonymous}
PasswordInputs == Passwords \cup {"", ShortPassword}
RegisterPasswords == {"longenough1", "", ShortPassword}
EmailInputs == Emails \cup {""}
UnknownEmail == "nobody@x.com"
LoginEmails == EmailInputs \cup {UnknownEmail}

(* Account provisioning and role assignment: accounts are created by      *)
(* registration and by OAuth sign-in, deleted by their owner, and roles   *)
(* are assigned and removed administratively.                             *)
Next ==
    \/ \E e \in EmailInputs, p \in RegisterPasswords, n \in RegisterNames,
          f \in 0 .. 5 : register(e, p, n, f)
    \/ \E e \in Emails, g \in ProviderProfiles, f \in 0 .. 5 :
          signIn(e, ProviderAccountId(e), g.name, g.image, f)
    \/ \E s \in SessionInputs, f \in 0 .. 3 : deleteAccount(s, f)
    \/ \E u \in UserIdInputs, r \in RoleNames, f \in 0 .. 2 : assignRoleToUser(u, r, f)
    \/ \E u \in UserIdInputs, r \in RoleNames, f \in 0 .. 2 : removeRoleFromUser(u, r, f)

Spec == Init /\ [][Next]_vars

(* Email verification and credentials login over time. *)
NextVerify ==
    \/ \E e \in EmailInputs, p \in RegisterPasswords, f \in 0 .. 5 :
          register(e, p, "", f)
    \/ \E t \in TokenInputs, f \in 0 .. 1 : verifyEmail(t, f)
    \/ \E e \in EmailInputs, f \in 0 .. 3 : resendVerification(e, f)
    \/ \E e \in LoginEmails, p \in PasswordInputs, f \in 0 .. 1 : authorize(e, p, f)
    \/ \E e \in Emails, f \in 0 .. 5 : signIn(e, ProviderAccountId(e), "", "", f)
    \/ Tick

SpecVerify == Init /\ [][NextVerify]_vars

(* The protected operations, called with the session of an OAuth user     *)
(* whose roles change, or with no session.                                *)
NextGuard ==
    \/ \E e \in Emails, f \in 0 .. 5 : signIn(e, ProviderAccountId(e), "", "", f)
    \/ \E u \in UserIdInputs, r \in RoleNames, f \in 0 .. 2 : assignRoleToUser(u, r, f)
    \/ \E u \in UserIdInputs, r \in RoleNames, f \in 0 .. 2 : removeRoleFromUser(u, r, f)
    \/ \E s \in SessionInputs, c \in PasswordInputs, p \in PasswordInputs,
          f \in 0 .. 4 : changePassword(s, c, p, f)
    \/ \E s \in SessionInputs, p \in PasswordInputs, f \in 0 .. 4 : setPassword(s, p, f)
    \/ \E s \in SessionInputs, f \in 0 .. 3 : deleteAccount(s, f)
    \/ \E s \in SessionInputs, f \in 0 .. 3 : loginMethods(s, f)
    \/ \E s \in SessionInputs, f \in 0 .. 2, g \in GoogleStatuses : calendarEvents(s, f, g)

SpecGuard == Init /\ [][NextGuard]_vars

(* OAuth sign-in of new, password and linked accounts, with a provider    *)
(* profile whose display name changes between sign-ins.                   *)
OAuthProfiles == ProviderProfiles \cup {[name |-> "Gina B", image |-> "g.png"]}

NextOAuth ==
    \/ \E e \in Emails, n \in RegisterNames, f \in 0 .. 5 :
          register(e, "longenough1", n, f)
    \/ \E t \in TokenInputs : verifyEmail(t, 0)
    \/ \E e \in Emails, g \in OAuthProfiles, f \in 0 .. 5 :
          signIn(e, ProviderAccountId(e), g.name, g.image, f)
    \/ Tick

SpecOAuth == Init /\ [][NextOAuth]_vars

(* Two requests for one email that has no row, their statements          *)
(* interleaved in every order.                                            *)
NextRace ==
    \/ \E p \in Requests, e \in Emails : startSignIn(p, e)
    \/ \E p \in Requests, e \in Emails : startRegister(p, e)
    \/ \E p \in Requests : signInGetUserByEmail(p)
    \/ \E p \in Requests : signInMergeAccountWithGoogle(p)
    \/ \E p \in Requests : createOrUpdateUserGetUserByEmail(p)
    \/ \E p \in Requests : createOrUpdateUserUpsert(p)
    \/ \E p \in Requests : createOrUpdateUserAssignRole(p)
    \/ \E p \in Requests : registerGetUserByEmail(p)
    \/ \E p \in Requests : createUserWithPasswordInsert(p)
    \/ \E p \in Requests : createUserWithPasswordAssignRole(p)

SpecRace == Init /\ [][NextRace]_vars

(* The permission resolver and the role assignment as functions of the    *)
(* tables: every catalog over the first MaxCatalogPermissions permissions,*)
(* one user created by an OAuth sign-in, and every set of role rows.      *)
RbacPermissionRows == {p \in PermissionRows : p.id <= MaxCatalogPermissions}

InitRbac ==
    /\ roles \in SUBSET RoleRows
    /\ permissions \in SUBSET RbacPermissionRows
    /\ role_permissions \in SUBSET ({r.id : r \in roles} \X {p.id : p \in permissions})
    /\ now = 0
    /\ users = {UserRow(1, "a@x.com", NULL, NULL, ProviderAccountId("a@x.com"),
                        NULL, NullToken, NullDate)}
    /\ user_roles \in SUBSET ({1} \X {r.id : r \in roles})
    /\ nextId = 2
    /\ nextToken = 1
    /\ session = Anonymous
    /\ completed = {1}
    /\ consumed = {}
    /\ resp = NoResp
    /\ inflight = [p \in Requests |-> Idle]

NextRbac ==
    \/ \E u \in UserIdInputs, r \in RoleNames, f \in 0 .. 2 : assignRoleToUser(u, r, f)
    \/ \E u \in UserIdInputs, r \in RoleNames, f \in 0 .. 2 : removeRoleFromUser(u, r, f)
    \/ \E u \in UserIdInputs, p \in PermissionNames, f \in 0 .. 2 :
          queryHasPermission(u, p, f)
    \/ \E u \in UserIdInputs, f \in 0 .. 1 : queryUserPermissions(u, f)

SpecRbac == InitRbac /\ [][NextRbac]_vars

(* Provisioning of the catalog, as the documentation prescribes it: the    *)
(* two roles are inserted first; a permission is inserted together with   *)
(* its link to the owner role and, for a read permission, its link to the *)
(* guest role, as one change.                                             *)

(* Links of a new permission that leave the owner role out. *)
ProvisionedLinksReadersOnly(p) ==
    IF p.id \in ReadPermissionIds
    THEN {<<(CHOOSE r \in RoleRows : r.name = ROLE_GUEST).id, p.id>>}
    ELSE {}

ProvisionedLinks(p) ==
    {<<(CHOOSE r \in RoleRows : r.name = ROLE_OWNER).id, p.id>>}
    \cup (IF p.id \in ReadPermissionIds
          THEN {<<(CHOOSE r \in RoleRows : r.name = ROLE_GUEST).id, p.id>>}
          ELSE {})

provisionRoles ==
    /\ roles = {}
    /\ roles' = RoleRows
    /\ resp' = Resp("provisionRoles", 0, FALSE, TRUE, 0, "")
    /\ UNCHANGED <<inflight, users, user_roles, permissions, role_permissions,
                   nextId, nextToken, now, session, completed, consumed>>

provisionPermission(p) ==
    /\ roles = RoleRows
    /\ p \notin permissions
    /\ permissions' = permissions \cup {p}
    /\ role_permissions' = role_permissions \cup ProvisionedLinks(p)
    /\ resp' = Resp("provisionPermission", 0, FALSE, TRUE, 0, p.name)
    /\ UNCHANGED <<inflight, users, user_roles, roles, nextId, nextToken, now,
                   session, completed, consumed>>

InitProvision ==
    /\ roles = {}
    /\ permissions = {}
    /\ role_permissions = {}
    /\ now = 0
    /\ users = {UserRow(1, "a@x.com", NULL, NULL, ProviderAccountId("a@x.com"),
                        NULL, NullToken, NullDate)}
    /\ user_roles = {}
    /\ nextId = 2
    /\ nextToken = 1
    /\ session = Anonymous
    /\ completed = {1}
    /\ consumed = {}
    /\ resp = NoResp
    /\ inflight = [p \in Requests |-> Idle]

NextProvision ==
    \/ provisionRoles
    \/ \E p \in PermissionRows : provisionPermission(p)
    \/ \E u \in UserIdInputs, r \in RoleNames : assignRoleToUser(u, r, 0)
    \/ \E u \in UserIdInputs, r \in RoleNames : removeRoleFromUser(u, r, 0)
    \/ \E u \in UserIdInputs, p \in PermissionNames : queryHasPermission(u, p, 0)
    \/ \E u \in UserIdInputs : queryUserPermissions(u, 0)

SpecProvision == InitProvision /\ [][NextProvision]_vars

(* The credentials of an account: created by registration or by a Google *)
(* sign-in, linked by a later Google sign-in, given a password or another *)
(* password by its owner, verified, and sent a new verification token.    *)
NextCredential ==
    \/ \E e \in Emails, f \in 0 .. 5 : register(e, "longenough1", "", f)
    \/ \E e \in Emails, f \in 0 .. 5 : signIn(e, ProviderAccountId(e), "", "", f)
    \/ \E s \in SessionInputs, p \in Passwords, f \in 0 .. 4 : setPassword(s, p, f)
    \/ \E s \in SessionInputs, c \in Passwords, p \in Passwords, f \in 0 .. 4 :
          changePassword(s, c, p, f)
    \/ \E t \in TokenInputs, f \in 0 .. 1 : verifyEmail(t, f)
    \/ \E e \in Emails, f \in 0 .. 3 : resendVerification(e, f)

SpecCredential == Init /\ [][NextCredential]_vars

(* Resend-verification requests whose two statements interleave with a   *)
(* verify-email request, which is one statement, for a registered account. *)
NextResend ==
    \/ \E e \in Emails, n \in RegisterNames : register(e, "longenough1", n, 0)
    \/ \E p \in Requests, e \in Emails : startResend(p, e)
    \/ \E p \in Requests : resendGetUserByEmail(p)
    \/ \E p \in Requests : resendUpdateVerificationToken(p)
    \/ \E t \in TokenInputs, f \in 0 .. 1 : verifyEmail(t, f)
    \/ Tick

SpecResend == Init /\ [][NextResend]_vars

(* Calls of setPassword whose two statements interleave, for a user that *)
(* a Google sign-in created.                                              *)
NextSetPassword ==
    \/ \E e \in Emails, g \in ProviderProfiles :
          signIn(e, ProviderAccountId(e), g.name, g.image, 0)
    \/ \E p \in Requests, u \in UserIdInputs, w \in Passwords : startSetPassword(p, u, w)
    \/ \E p \in Requests : setPasswordGetUserById(p)
    \/ \E p \in Requests : setPasswordUpdate(p)

SpecSetPassword == Init /\ [][NextSetPassword]_vars

(* Deletion of one of two accounts, each with any set of roles. *)
InitDelete ==
    /\ \E c \in Catalogs :
        /\ roles = c.roles
        /\ permissions = c.permissions
        /\ role_permissions = c.role_permissions
    /\ now = 0
    /\ users = {UserRow(1, "a@x.com", NULL, NULL, ProviderAccountId("a@x.com"),
                        NULL, NullToken, NullDate),
                UserRow(2, "b@x.com", "Ben", NULL, NULL,
                        BcryptHash("longenough1"), 1, TokenValidityHours)}
    /\ user_roles \in SUBSET ({1, 2} \X {r.id : r \in roles})
    /\ nextId = 3
    /\ nextToken = 2
    /\ session = Anonymous
    /\ completed = {1, 2}
    /\ consumed = {}
    /\ resp = NoResp
    /\ inflight = [p \in Requests |-> Idle]

NextDelete ==
    \/ \E u \in UserIdInputs, f \in 0 .. 1 : deleteUser(u, f)
    \/ \E u \in UserIdInputs, r \in RoleNames, f \in 0 .. 2 : assignRoleToUser(u, r, f)
    \/ \E u \in UserIdInputs, r \in RoleNames, f \in 0 .. 2 : removeRoleFromUser(u, r, f)
    \/ \E u \in UserIdInputs, p \in PermissionNames : queryHasPermission(u, p, 0)
    \/ \E u \in UserIdInputs : queryUserPermissions(u, 0)

SpecDelete == InitDelete /\ [][NextDelete]_vars

----------------------------------------------------------------------------
(* The permission resolver and the role assignment (SpecRbac). *)

Elements(seq) == {seq[i] : i \in 1 .. Len(seq)}
RoleRow(userId, roleName) == <<userId, (CHOOSE r \in getRoleByName(roleName) : TRUE).id>>

(* C4: for every user id and permission name, hasPermission answers true  *)
(* exactly when the name is in the list getUserPermissions returns.       *)
C4_HasPermissionIffListed ==
    \A u \in UserIdInputs, p \in PermissionNames :
        hasPermission(u, p, 0).ret <=> p \in Elements(getUserPermissions(u))

C4_Witness ==
    /\ resp.op = "hasPermission"
    /\ ~resp.threw
    /\ resp.ret
    /\ resp.arg \in Elements(getUserPermissions(resp.uid))
    /\ \E q \in PermissionNames :
        getPermissionByName(q) # {} /\ q \notin Elements(getUserPermissions(resp.uid))

(* C5: for a permission name that is not in the catalog, hasPermission    *)
(* returns false and does not raise, whatever roles the user holds; a     *)
(* call raises only when a statement fails.                               *)
C5_UnknownPermissionIsFalse ==
    /\ \A u \in UserIdInputs, p \in PermissionNames :
        getPermissionByName(p) = {} =>
            /\ \A f \in {0, 2} : hasPermission(u, p, f).ret = FALSE
                                 /\ ~hasPermission(u, p, f).threw
            /\ hasPermission(u, p, 1).error = "StorageError"
    /\ resp.op = "hasPermission" /\ resp.threw => resp.error = "StorageError"

C5_Witness ==
    /\ resp.op = "hasPermission"
    /\ getPermissionByName(resp.arg) = {}
    /\ getUserRoles(resp.uid) # {}
    /\ permissions # {}
    /\ ~resp.threw
    /\ ~resp.ret

(* C8: a call of assignRoleToUser for an existing role returns true       *)
(* exactly when it inserts the row; a second call right after the first   *)
(* returns false and leaves getUserRoles as the first call left it.  A    *)
(* second removeRoleFromUser right after the first leaves getUserRoles as *)
(* the first left it, and removing a role the user does not hold returns  *)
(* false, raises nothing and changes no row.                              *)
C8_AssignRemoveIdempotent ==
    [][/\ \A u \in UserIdInputs, r \in RoleNames :
            (/\ resp'.op = "assignRoleToUser" /\ resp'.uid = u /\ resp'.arg = r
             /\ getRoleByName(r) # {} /\ u \in UserIds(users)
             /\ assignRoleToUser(u, r, 0)) =>
                /\ ~resp'.threw
                /\ resp'.ret = (RoleRow(u, r) \notin user_roles)
                /\ user_roles' = user_roles \cup {RoleRow(u, r)}
                /\ (resp.op = "assignRoleToUser" /\ ~resp.threw
                        /\ resp.uid = u /\ resp.arg = r) =>
                    (~resp'.ret /\ getUserRoles(u)' = getUserRoles(u))
       /\ \A u \in UserIdInputs, r \in RoleNames :
            (/\ resp'.op = "removeRoleFromUser" /\ resp'.uid = u /\ resp'.arg = r
             /\ getRoleByName(r) # {}
             /\ removeRoleFromUser(u, r, 0)) =>
                /\ ~resp'.threw
                /\ resp'.ret = (RoleRow(u, r) \in user_roles)
                /\ user_roles' = user_roles \ {RoleRow(u, r)}
                /\ RoleRow(u, r) \notin user_roles =>
                    (~resp'.ret /\ user_roles' = user_roles)
                /\ (resp.op = "removeRoleFromUser" /\ ~resp.threw
                        /\ resp.uid = u /\ resp.arg = r) =>
                    (~resp'.ret /\ getUserRoles(u)' = getUserRoles(u))
      ]_vars

C8_Witness ==
    /\ resp.op = "assignRoleToUser"
    /\ getRoleByName(resp.arg) # {}
    /\ ~resp.threw
    /\ ~resp.ret
    /\ RoleRow(resp.uid, resp.arg) \in user_roles
    /\ Cardinality(getUserRoles(resp.uid)) = 2

(* C9: assignRoleToUser with a role name that is not in the roles table   *)
(* raises a NotFound error and inserts no row.                            *)
C9_UnknownRoleRaisesNotFound ==
    (/\ resp.op = "assignRoleToUser"
     /\ getRoleByName(resp.arg) = {}
     /\ resp.error # "StorageError")
        => (resp.threw /\ resp.error = "NotFound")

----------------------------------------------------------------------------
(* Account creation and the default role (Spec). *)

CreationOps == {"register", "signIn"}

(* C1: after an account creation that completed (createUserWithPassword   *)
(* or the first createOrUpdateUser returned), getUserRoles of the new     *)
(* user is not empty.                                                     *)
C1_CreatedUserHasRole ==
    (resp.op \in CreationOps /\ resp.created # 0) => getUserRoles(resp.created) # {}

(* C2: every user row whose creation has completed has at least one row   *)
(* in user_roles.                                                         *)
C2_EveryUserHasRole ==
    \A u \in users : u.id \in completed => \E ur \in user_roles : ur[1] = u.id

(* C3: a row that a register request or an OAuth sign-in adds to users    *)
(* holds a role when the request ends: a creation whose role assignment   *)
(* failed leaves no row.                                                  *)
C3_NoUserWithoutRoleAfterCreation ==
    [][resp'.op \in CreationOps =>
          \A id \in UserIds(users') \ UserIds(users) : getUserRoles(id)' # {}]_vars

----------------------------------------------------------------------------
(* The protected operations (SpecGuard). *)

MutatingOps == {"changePassword", "setPassword", "deleteAccount"}

(* A statement of the permission check fails: the first, or the second    *)
(* when the first found the permission.                                   *)
CheckFails(sess, permission, fail) ==
    /\ sess.id # NoSession
    /\ \/ fail = 1
       \/ fail = 2 /\ getPermissionByName(permission) # {}

Answered500 ==
    /\ resp'.status = 500
    /\ ~resp'.called
    /\ users' = users
    /\ user_roles' = user_roles

(* C6: when a statement of the permission check of a protected operation  *)
(* fails, the request ends with status 500 (not 403, not a success), the  *)
(* operation is not called and no row changes.                            *)
C6_CheckFailureIs500 ==
    [][\A s \in SessionInputs, f \in 1 .. 2 :
        /\ \A c \in PasswordInputs, p \in PasswordInputs :
            (resp'.op = "changePassword" /\ CheckFails(s, AUTH_UPDATE, f)
                /\ changePassword(s, c, p, f)) => Answered500
        /\ \A p \in PasswordInputs :
            (resp'.op = "setPassword" /\ CheckFails(s, AUTH_UPDATE, f)
                /\ setPassword(s, p, f)) => Answered500
        /\ (resp'.op = "deleteAccount" /\ CheckFails(s, AUTH_DELETE, f)
                /\ deleteAccount(s, f)) => Answered500
        /\ (resp'.op = "loginMethods" /\ CheckFails(s, AUTH_READ, f)
                /\ loginMethods(s, f)) => Answered500
        /\ \A g \in GoogleStatuses :
            (resp'.op = "calendarEvents" /\ CheckFails(s, CALENDAR_READ, f)
                /\ s.accessToken /\ calendarEvents(s, f, g)) => Answered500
      ]_vars

C6_Witness ==
    /\ resp.op = "setPassword"
    /\ resp.status = 500
    /\ resp.error = "StorageError"
    /\ ~resp.called
    /\ resp.uid \in UserIds(users)
    /\ hasPermission(resp.uid, AUTH_UPDATE, 0).ret

(* C7: change-password, set-password and delete-account call the mutating *)
(* function only when the session has a user id and checkPermission       *)
(* answered true for it; without a session user id the answer is 401,     *)
(* with a check that answered false it is 403, and in both cases no row   *)
(* of users changes.                                                      *)
C7_MutationOnlyAfterCheck ==
    [][/\ resp'.op \in MutatingOps =>
            /\ resp'.called =>
                (resp'.uid # NoSession /\ hasPermission(resp'.uid, resp'.arg, 0).ret)
            /\ (users' # users \/ user_roles' # user_roles) => resp'.called
            /\ resp'.status = 401 <=> resp'.uid = NoSession
            /\ resp'.status = 403 =>
                (resp'.uid # NoSession /\ ~hasPermission(resp'.uid, resp'.arg, 0).ret)
            /\ resp'.status \in {401, 403} => (users' = users /\ ~resp'.called)
       /\ \A s \in SessionInputs :
            (s.id # NoSession /\ ~hasPermission(s.id, AUTH_UPDATE, 0).ret) =>
                /\ \A c \in PasswordInputs, p \in PasswordInputs :
                    (resp'.op = "changePassword" /\ changePassword(s, c, p, 0))
                        => resp'.status = 403
                /\ \A p \in PasswordInputs :
                    (resp'.op = "setPassword" /\ setPassword(s, p, 0))
                        => resp'.status = 403
       /\ \A s \in SessionInputs :
            (resp'.op = "deleteAccount" /\ s.id # NoSession
                /\ ~hasPermission(s.id, AUTH_DELETE, 0).ret
                /\ deleteAccount(s, 0)) => resp'.status = 403
      ]_vars

C7_Witness ==
    /\ resp.op = "deleteAccount"
    /\ resp.status = 403
    /\ resp.uid \in UserIds(users)
    /\ getUserRoles(resp.uid) # {}

----------------------------------------------------------------------------
(* Email verification (SpecVerify). *)

(* C10: verifyUserEmail with the token issued to a password account, not  *)
(* yet expired, finds email_verified false, sets it to true and clears    *)
(* the token and its expiry; a later verifyUserEmail with a token that    *)
(* was accepted before returns no user and changes no row; email_verified *)
(* becomes true only in such a call and never becomes false again.        *)
C10_VerifyOnce ==
    [][/\ \A t \in TokenInputs \ {NullToken} :
            \A u \in users :
                (/\ verifyEmail(t, 0)
                 /\ u.verification_token = t
                 /\ u.verification_token_expires > now
                 /\ u.password_hash # NULL) =>
                    /\ ~u.email_verified
                    /\ resp'.ret /\ resp'.status = 200 /\ resp'.uid = u.id
                    /\ \E v \in users' :
                        /\ v.id = u.id
                        /\ v.email_verified
                        /\ v.verification_token = NullToken
                        /\ v.verification_token_expires = NullDate
       /\ \A t \in consumed, f \in 0 .. 1 :
            verifyEmail(t, f) =>
                /\ ~resp'.ret
                /\ resp'.status = IF f = 0 THEN 400 ELSE 500
                /\ users' = users
       /\ \A u \in users, v \in users' :
            u.id = v.id =>
                /\ u.email_verified => v.email_verified
                /\ (~u.email_verified /\ v.email_verified) =>
                    (resp'.op = "verifyEmail" /\ resp'.ret
                        /\ resp'.token = u.verification_token)
      ]_vars

C10_Witness ==
    /\ resp.op = "verifyEmail"
    /\ resp.token \in consumed
    /\ ~resp.ret
    /\ resp.status = 400
    /\ \E u \in users :
        /\ u.email_verified
        /\ u.password_hash # NULL
        /\ u.verification_token = NullToken
        /\ u.verification_token_expires = NullDate
        /\ u.updated_at = now

(* C11: a verify-email request whose token is held by no user, or is held *)
(* by a user with an expiry at or before the current time, is answered    *)
(* 400 "invalid or expired" and changes no row of users.                  *)
C11_BadTokenChangesNothing ==
    [][\A t \in TokenInputs \ {NullToken} :
        (/\ resp'.op = "verifyEmail" /\ resp'.token = t
         /\ verifyEmail(t, 0)
         /\ \A u \in users :
                u.verification_token = t => u.verification_token_expires <= now) =>
            /\ resp'.status = 400
            /\ resp'.error = "Token invalido o expirado"
            /\ ~resp'.ret
            /\ users' = users
      ]_vars

C11_Witness ==
    /\ resp.op = "verifyEmail"
    /\ resp.status = 400
    /\ resp.error = "Token invalido o expirado"
    /\ \E u \in users :
        /\ u.verification_token = resp.token
        /\ u.verification_token_expires = now
        /\ ~u.email_verified

(* The tokens issued so far. *)
IssuedTokens == 1 .. (nextToken - 1)

(* C12: a resend-verification answered 200 leaves the account unverified  *)
(* with a new token, valid from now on, and no row holds the old token;   *)
(* a verify-email with an issued token that no row holds fails and        *)
(* changes nothing, one with the token a row holds before its expiry      *)
(* verifies that row; a token that left the table never returns to it, so *)
(* at most one token can verify an account.                               *)
C12_ResendInvalidatesOldToken ==
    [][/\ \A e \in Emails, u \in users :
            (/\ resp'.op = "resendVerification" /\ resp'.status = 200
             /\ u.email = e
             /\ resendVerification(e, 0)) =>
                /\ ~u.email_verified
                /\ resp'.token # u.verification_token
                /\ resp'.token \notin IssuedTokens
                /\ \E v \in users' :
                    /\ v.id = u.id
                    /\ ~v.email_verified
                    /\ v.verification_token = resp'.token
                    /\ v.verification_token_expires > now
                /\ u.verification_token # NullToken =>
                    \A v \in users' : v.verification_token # u.verification_token
       /\ \A t \in IssuedTokens :
            (/\ resp'.op = "verifyEmail" /\ resp'.token = t
             /\ verifyEmail(t, 0)) =>
                IF \E u \in users : u.verification_token = t
                                    /\ u.verification_token_expires > now
                THEN /\ resp'.ret
                     /\ \E v \in users' : v.id = resp'.uid /\ v.email_verified
                     /\ \A u \in users :
                            u.verification_token = t <=> u.id = resp'.uid
                ELSE ~resp'.ret /\ users' = users
       /\ \A t \in IssuedTokens :
            (\A u \in users : u.verification_token # t) =>
                (\A v \in users' : v.verification_token # t)
       /\ \A u \in users :
            Cardinality({t \in TokenInputs :
                \E v \in VerifyUserEmailOutcome(t, 0).rows : v.id = u.id}) <= 1
      ]_vars

C12_Witness ==
    /\ resp.op = "verifyEmail"
    /\ resp.status = 400
    /\ ~resp.ret
    /\ resp.token \in IssuedTokens
    /\ resp.token \notin consumed
    /\ \E u \in users :
        /\ ~u.email_verified
        /\ u.password_hash # NULL
        /\ u.verification_token > resp.token
        /\ u.verification_token_expires > now

----------------------------------------------------------------------------
(* Credentials login (SpecVerify). *)

(* The rows of email whose stored hash is the hash of password. *)
HashMatches(email, password) ==
    {u \in users : /\ u.email = email
                   /\ u.password_hash # NULL
                   /\ u.password_hash = BcryptHash(password)}

ReturnsNull ==
    /\ ~resp'.ret
    /\ ~resp'.threw
    /\ resp'.error = ""
    /\ resp'.uid = 0
    /\ session' = session

(* C13: authorize produces a user id exactly when the stored hash matches *)
(* the password and email_verified is true; on an unverified account a    *)
(* wrong password returns null and only the right password raises "Email  *)
(* no verificado"; for a verified account the right password gives the    *)
(* user's id.                                                             *)
C13_LoginNeedsPasswordAndVerified ==
    [][\A e \in Emails, p \in PasswordInputs \ {""} :
        (/\ resp'.op = "authorize" /\ resp'.arg = e
         /\ authorize(e, p, 0)) =>
            /\ resp'.ret <=> \E u \in HashMatches(e, p) : u.email_verified
            /\ resp'.ret =>
                \E u \in HashMatches(e, p) : resp'.uid = u.id /\ session'.id = u.id
            /\ HashMatches(e, p) = {} => ReturnsNull
            /\ (\E u \in HashMatches(e, p) : ~u.email_verified) =>
                /\ resp'.threw
                /\ resp'.error = "Email no verificado"
                /\ ~resp'.ret
                /\ session' = session
      ]_vars

C13_Witness ==
    /\ resp.op = "authorize"
    /\ resp.ret
    /\ session.id = resp.uid
    /\ \E u \in users :
        /\ u.id = resp.uid
        /\ u.email_verified
        /\ u.password_hash # NULL
    /\ consumed # {}

(* What the caller of authorize sees when it returns null. *)
NullOutcome == Resp("authorize", 0, FALSE, FALSE, 0, "")

(* C14: a login with an email that has no row, and a login with an email  *)
(* that has a row and a password that is not the stored one (rows without *)
(* a password hash included, verified or not), end the same way:          *)
(* authorize returns null, raises nothing and mints no session.           *)
C14_UnknownEmailLikeWrongPassword ==
    [][\A p \in PasswordInputs \ {""} :
        /\ (/\ resp'.op = "authorize" /\ resp'.arg = UnknownEmail
            /\ authorize(UnknownEmail, p, 0)) =>
                /\ [resp' EXCEPT !.arg = ""] = NullOutcome
                /\ session' = session
        /\ \A e \in Emails :
            (/\ resp'.op = "authorize" /\ resp'.arg = e
             /\ getUserByEmail(users, e) # {}
             /\ HashMatches(e, p) = {}
             /\ authorize(e, p, 0)) =>
                /\ [resp' EXCEPT !.arg = ""] = NullOutcome
                /\ session' = session
      ]_vars

C14_Witness ==
    /\ resp.op = "authorize"
    /\ [resp EXCEPT !.arg = ""] = NullOutcome
    /\ \E u \in users :
        /\ u.email = resp.arg
        /\ u.password_hash = NULL
        /\ u.google_id # NULL
        /\ ~u.email_verified

----------------------------------------------------------------------------
(* OAuth sign-in (SpecOAuth). *)

RowsOf(tbl, email) == {u \in tbl : u.email = email}

(* C15: an OAuth sign-in for a user that has a password hash and no       *)
(* google_id succeeds whatever email_verified is, leaves one row for the  *)
(* email, sets google_id to the provider's subject id and leaves id,      *)
(* password_hash, email_verified, verification_token and its expiry as    *)
(* they were.                                                             *)
C15_MergeKeepsPasswordAccount ==
    [][\A e \in Emails, g \in OAuthProfiles, u \in users :
        (/\ resp'.op = "signIn" /\ resp'.arg = e
         /\ u.email = e /\ u.password_hash # NULL /\ u.google_id = NULL
         /\ signIn(e, ProviderAccountId(e), g.name, g.image, 0)) =>
            /\ resp'.ret
            /\ resp'.error = ""
            /\ resp'.uid = u.id
            /\ session'.id = u.id
            /\ Cardinality(RowsOf(users', e)) = 1
            /\ \A v \in RowsOf(users', e) :
                /\ v.id = u.id
                /\ v.google_id = ProviderAccountId(e)
                /\ v.password_hash = u.password_hash
                /\ v.email_verified = u.email_verified
                /\ v.verification_token = u.verification_token
                /\ v.verification_token_expires = u.verification_token_expires
            /\ user_roles' = user_roles
      ]_vars

C15_Witness ==
    /\ resp.op = "signIn"
    /\ resp.error = ""
    /\ consumed # {}
    /\ Cardinality(RowsOf(users, resp.arg)) = 1
    /\ \E u \in users :
        /\ u.id = resp.uid
        /\ u.password_hash # NULL
        /\ u.google_id = ProviderAccountId(u.email)
        /\ u.email_verified

(* C16: an OAuth sign-in for a user whose google_id is set adds no row,   *)
(* leaves a stored name or image in place when the provider gives none,   *)
(* keeps google_id, and, when the provider gives another name and no      *)
(* other image, changes name and updated_at and no other column.          *)
C16_RepeatedSignInKeepsRow ==
    [][\A e \in Emails, g \in OAuthProfiles, u \in users :
        (/\ resp'.op = "signIn" /\ resp'.arg = e
         /\ u.email = e /\ u.google_id # NULL
         /\ signIn(e, ProviderAccountId(e), g.name, g.image, 0)) =>
            /\ resp'.uid = u.id
            /\ Cardinality(users') = Cardinality(users)
            /\ Cardinality(RowsOf(users', e)) = 1
            /\ user_roles' = user_roles
            /\ \A v \in RowsOf(users', e) :
                /\ v.id = u.id
                /\ v.google_id = u.google_id
                /\ g.name = "" => v.name = u.name
                /\ g.image = "" => v.image = u.image
                /\ u.name # NULL => v.name # NULL
                /\ u.image # NULL => v.image # NULL
                /\ (g.name # "" /\ (g.image = "" \/ g.image = u.image)) =>
                    v = [u EXCEPT !.name = g.name, !.updated_at = now]
      ]_vars

C16_Witness ==
    /\ resp.op = "signIn"
    /\ resp.error = ""
    /\ resp.created = 0
    /\ now > 0
    /\ \E u \in users :
        /\ u.id = resp.uid
        /\ u.password_hash = NULL
        /\ u.google_id # NULL
        /\ u.name = "Gina B"
        /\ u.image = "g.png"
        /\ u.updated_at = now

(* C17: an OAuth sign-in that created a user leaves one row for the email *)
(* with google_id the provider's subject id, no password hash,            *)
(* email_verified true, and the owner role.                               *)
C17_OAuthCreatesVerifiedOwner ==
    (resp.op = "signIn" /\ resp.created # 0) =>
        /\ Cardinality(RowsOf(users, resp.arg)) = 1
        /\ \A u \in RowsOf(users, resp.arg) :
            /\ u.id = resp.created
            /\ u.google_id = ProviderAccountId(u.email)
            /\ u.password_hash = NULL
            /\ u.email_verified
            /\ ROLE_OWNER \in getUserRoles(u.id)

----------------------------------------------------------------------------
(* Concurrent requests for one email (SpecRace). *)

Done(p) == inflight[p].pc = "done"

(* C18: when two Google sign-ins for an email that had no row have both   *)
(* ended, whatever the order of their statements, there is one row for    *)
(* the email, its user holds the owner role, and both sign-ins got that   *)
(* user's id.                                                             *)
C18_ConcurrentSignInsOneOwner ==
    (\A p \in Requests : inflight[p].kind = "signIn" /\ Done(p)) =>
        \A e \in Emails :
            (\A p \in Requests : inflight[p].email = e) =>
                /\ Cardinality(RowsOf(users, e)) = 1
                /\ \A u \in RowsOf(users, e) :
                    /\ ROLE_OWNER \in getUserRoles(u.id)
                    /\ \A p \in Requests : inflight[p].uid = u.id

(* C19: of two requests for an email that had no row, at least one of     *)
(* them a register, a register that ended answered 200 or 409, never     *)
(* 500, and one row exists for the email.                                 *)
C19_RegisterRaceNeverFails ==
    \A p \in Requests :
        (inflight[p].kind = "register" /\ Done(p)) =>
            /\ inflight[p].status \in {200, 409}
            /\ Cardinality(RowsOf(users, inflight[p].email)) = 1

----------------------------------------------------------------------------
(* Storage failures in the OAuth sign-in (Spec). *)

(* C20: a Google sign-in in which a statement of the account resolution   *)
(* failed does not report success and mints no session.                   *)
C20_SignInFailurePropagates ==
    [][(resp'.op = "signIn" /\ resp'.error = "StorageError") =>
            (~resp'.ret /\ session' = session)]_vars

----------------------------------------------------------------------------
(* The provisioned catalog (SpecProvision). *)

RolePermissionIds(roleName) ==
    {l[2] : l \in {l \in role_permissions :
                    \E r \in getRoleByName(roleName) : l[1] = r.id}}

(* C21: in every catalog state provisioning reaches, the owner role holds *)
(* every permission of the catalog, so its permission set contains the    *)
(* permission set of every role; the guest role holds only read           *)
(* permissions.                                                           *)
C21_OwnerHoldsEveryPermission ==
    /\ roles # {} => RolePermissionIds(ROLE_OWNER) = {p.id : p \in permissions}
    /\ \A r \in roles : RolePermissionIds(r.name) \subseteq RolePermissionIds(ROLE_OWNER)
    /\ RolePermissionIds(ROLE_GUEST) \subseteq ReadPermissionIds

C21_Witness ==
    /\ permissions = PermissionRows
    /\ RolePermissionIds(ROLE_GUEST) = ReadPermissionIds
    /\ RolePermissionIds(ROLE_OWNER) # RolePermissionIds(ROLE_GUEST)
    /\ resp.op = "provisionPermission"

----------------------------------------------------------------------------
(* Deletion of a user (SpecDelete). *)

RoleRowsOf(ur, userId) == {row \in ur : row[1] = userId}

(* C22: after deleteUser(u) returned true, no user_roles row references   *)
(* u, getUserRoles(u) and getUserPermissions(u) are empty, hasPermission  *)
(* is false for u and every permission, and the row and the role          *)
(* assignments of every other user are as before.                         *)
C22_DeleteUserCascades ==
    [][\A u \in UserIdInputs :
        (resp'.op = "deleteUser" /\ resp'.uid = u /\ resp'.ret) =>
            /\ getUserById(users, u)' = {}
            /\ RoleRowsOf(user_roles, u)' = {}
            /\ getUserRoles(u)' = {}
            /\ getUserPermissions(u)' = <<>>
            /\ \A p \in PermissionNames : ~hasPermission(u, p, 0).ret'
            /\ \A v \in UserIds(users) \ {u} :
                /\ getUserById(users, v)' = getUserById(users, v)
                /\ RoleRowsOf(user_roles, v)' = RoleRowsOf(user_roles, v)]_vars

C22_Witness ==
    /\ resp.op = "deleteUser"
    /\ resp.ret
    /\ \E v \in UserIds(users) :
        /\ v # resp.uid
        /\ getUserRoles(v) = RoleNames
        /\ getUserPermissions(v) # <<>>

----------------------------------------------------------------------------
(* The profile columns in the merge of a Google sign-in (SpecOAuth). *)

(* C23: an OAuth sign-in that merges into a row with no google_id keeps a *)
(* name and an image that are not null, and writes the provider's name    *)
(* and image only into a column that is null.                             *)
C23_MergeKeepsLocalProfile ==
    [][\A e \in Emails, g \in OAuthProfiles, u \in users :
        (/\ resp'.op = "signIn" /\ resp'.arg = e
         /\ u.email = e /\ u.google_id = NULL
         /\ signIn(e, ProviderAccountId(e), g.name, g.image, 0)) =>
            \A v \in RowsOf(users', e) :
                /\ v.name = IF u.name # NULL THEN u.name ELSE OrNull(g.name)
                /\ v.image = IF u.image # NULL THEN u.image ELSE OrNull(g.image)
      ]_vars

----------------------------------------------------------------------------
(* The user id of a session (SpecVerify). *)

(* C24: a sign-in, by credentials or by Google, that mints a session      *)
(* mints it for the id of the users row whose email is the email signed   *)
(* in with.                                                               *)
C24_SessionIdIsRowId ==
    [][(resp'.op \in {"authorize", "signIn"} /\ resp'.ret) =>
            \E u \in RowsOf(users', resp'.arg) : session'.id = u.id]_vars

----------------------------------------------------------------------------
(* The permission list of a user in a provisioned catalog (SpecProvision). *)

RolePermissionNames(roleName) ==
    {p.name : p \in {p \in permissions : p.id \in RolePermissionIds(roleName)}}

(* C25: getUserPermissions(u) lists exactly the names of the permissions  *)
(* attached to some role u holds, each name once, in ascending order of   *)
(* the names; a user whose only role is guest, guest being granted only   *)
(* calendar:read, has calendar:read and does not have calendar:delete.    *)
C25_PermissionsAreUnionOfRoles ==
    /\ \A u \in UserIdInputs :
        LET list == getUserPermissions(u)
            granted == UNION {RolePermissionNames(r) : r \in getUserRoles(u)}
        IN  /\ Elements(list) = granted
            /\ Len(list) = Cardinality(granted)
            /\ \A i, j \in 1 .. Len(list) :
                    i < j => NameRank(list[i]) < NameRank(list[j])
            /\ (getUserRoles(u) = {ROLE_GUEST}
                    /\ RolePermissionNames(ROLE_GUEST) = {CALENDAR_READ}) =>
                    /\ hasPermission(u, CALENDAR_READ, 0).ret
                    /\ ~hasPermission(u, CALENDAR_DELETE, 0).ret
    /\ (resp.op = "getUserPermissions" /\ ~resp.threw) =>
            resp.list = getUserPermissions(resp.uid)

C25_Witness ==
    /\ resp.op = "getUserPermissions"
    /\ getUserRoles(resp.uid) = {ROLE_GUEST}
    /\ RolePermissionNames(ROLE_GUEST) = {CALENDAR_READ}
    /\ getPermissionByName(CALENDAR_DELETE) # {}
    /\ resp.list = <<CALENDAR_READ>>

----------------------------------------------------------------------------
(* The credentials of a user row (SpecCredential). *)

(* C26: in every state reached by registrations, Google sign-ins and      *)
(* merges, set-password, change-password, verify-email and                *)
(* resend-verification, every users row has a password hash or a          *)
(* google_id.                                                             *)
C26_EveryUserHasCredential ==
    \A u \in users : u.password_hash # NULL \/ u.google_id # NULL

C26_Witness ==
    /\ resp.op = "setPassword"
    /\ resp.ret
    /\ \E u \in users :
        /\ u.id = resp.uid
        /\ u.password_hash # NULL
        /\ u.google_id # NULL

----------------------------------------------------------------------------
(* Resend-verification concurrent with verify-email (SpecResend). *)

(* C27: in every state, whatever the order of the statements of a         *)
(* resend-verification request and a verify-email request for the same    *)
(* account, a user whose email is verified has no verification token and  *)
(* no token expiry.                                                       *)
C27_VerifiedHasNoToken ==
    \A u \in users :
        u.email_verified =>
            /\ u.verification_token = NullToken
            /\ u.verification_token_expires = NullDate

----------------------------------------------------------------------------
(* A failed verification mail in the registration (Spec). *)

(* C28: a register whose verification mail fails answers an error and     *)
(* leaves the row it inserted, with its password hash, its pending        *)
(* verification token and the owner role; a register for an email that    *)
(* has a row answers 409 and changes nothing.                             *)
C28_MailFailureKeepsAccount ==
    [][\A e \in Emails :
        /\ (resp'.op = "register" /\ resp'.arg = e /\ resp'.error = "EmailError") =>
                /\ resp'.status = 500
                /\ getUserByEmail(users, e) = {}
                /\ \E u \in RowsOf(users', e) :
                    /\ u.id = resp'.uid
                    /\ u.password_hash # NULL
                    /\ ~u.email_verified
                    /\ u.verification_token = resp'.token
                    /\ u.verification_token # NullToken
                    /\ ROLE_OWNER \in getUserRoles(u.id)'
        /\ \A n \in RegisterNames :
            (/\ resp'.op = "register" /\ resp'.arg = e
             /\ getUserByEmail(users, e) # {}
             /\ register(e, "longenough1", n, 0)) =>
                /\ resp'.status = 409
                /\ users' = users
                /\ user_roles' = user_roles
      ]_vars

----------------------------------------------------------------------------
(* Concurrent calls of setPassword (SpecSetPassword). *)

(* C29: of two calls of setPassword for one user, whatever the order of   *)
(* their statements, at most one returns true, and the hash a call that   *)
(* returned true stored is the hash the user has.                         *)
C29_SetPasswordNeverReplaces ==
    \A p \in Requests :
        (inflight[p].kind = "setPassword" /\ Done(p) /\ inflight[p].ret) =>
            /\ \A u \in getUserById(users, inflight[p].uid) :
                    u.password_hash = BcryptHash(inflight[p].password)
            /\ \A q \in Requests \ {p} :
                    (inflight[q].kind = "setPassword" /\ Done(q)
                        /\ inflight[q].uid = inflight[p].uid) => ~inflight[q].ret

----------------------------------------------------------------------------
(* The roles of a user across Google sign-ins (Spec). *)

(* C30: a Google sign-in for an email that has a users row, merging or    *)
(* repeated, with or without a failing statement, leaves user_roles as it *)
(* was, so a role that was removed is not granted again.                  *)
C30_SignInKeepsRoles ==
    [][\A e \in Emails :
        (resp'.op = "signIn" /\ resp'.arg = e /\ getUserByEmail(users, e) # {}) =>
            user_roles' = user_roles]_vars

C30_Witness ==
    /\ resp.op = "signIn"
    /\ resp.error = ""
    /\ resp.created = 0
    /\ getRoleByName(ROLE_OWNER) # {}
    /\ \E u \in RowsOf(users, resp.arg) :
        /\ u.id = resp.uid
        /\ u.google_id # NULL
        /\ getUserRoles(u.id) = {}

====
